---- MODULE Spec2Model ----
(***************************************************************************)
(* A model of saulify's rule-driven article extraction:                    *)
(*   saulify/scrapers/cascade.py     (scraper_cascade, load_superdomains)  *)
(*   saulify/scrapers/instapaper.py  (InstapaperScraper)                   *)
(*   saulify/sitespec.py             (TestCase)                            *)
(*                                                                         *)
(* Text is a sequence of tokens.  A token is either one character of text  *)
(* or one opening / closing tag, so that the page source, the serialized   *)
(* body, markdown and plaintext are all values of the same type.           *)
(* A Python dict is a record [keys, v]: keys is the set of keys present    *)
(* and v holds the value of every key that is (dict truthiness is          *)
(* keys # {}).  None is <<>> and a returned object x is <<x>>.             *)
(***************************************************************************)
EXTENDS Integers, Sequences, FiniteSets, TLC

VARIABLES pc, sitespecs, hostname, spec, source, elem, extern, testcase, ret

vars == <<pc, sitespecs, hostname, spec, source, elem, extern, testcase, ret>>

(***************************************************************************)
(* Bounds of the model.                                                    *)
(***************************************************************************)
MaxLabels == 3
MaxFiles == 2
MaxNodes == 3
MaxSrcLen == 3
MaxPairs == 2
MaxFragments == 2

(***************************************************************************)
(* Strings.                                                                *)
(***************************************************************************)
None == <<>>

Some(x) == <<x>>

Range(s) == {s[i] : i \in 1..Len(s)}

SeqsUpTo(S, n) == UNION {[1..k -> S] : k \in 0..n}

IsPrefixAt(s, sub, i) ==
    /\ i + Len(sub) - 1 <= Len(s)
    /\ SubSeq(s, i, i + Len(sub) - 1) = sub

\* Python `sub in s`, XPath contains(s, sub)
Contains(s, sub) == \E i \in 1..(Len(s) + 1) : IsPrefixAt(s, sub, i)

RECURSIVE Concat(_)
Concat(ss) == IF ss = <<>> THEN <<>> ELSE Head(ss) \o Concat(Tail(ss))

RECURSIVE LStrip(_, _)
LStrip(s, chars) ==
    IF s # <<>> /\ Head(s) \in chars THEN LStrip(Tail(s), chars) ELSE s

RECURSIVE RStrip(_, _)
RStrip(s, chars) ==
    IF s # <<>> /\ s[Len(s)] \in chars
    THEN RStrip(SubSeq(s, 1, Len(s) - 1), chars) ELSE s

\* Python s.strip(chars)
Strip(s, chars) == RStrip(LStrip(s, chars), chars)

(***************************************************************************)
(* Rule sets.  A spec file is a sequence of `label: content` lines.        *)
(***************************************************************************)
ListDirectives ==
    {"title", "date", "footnotes", "author", "body",
     "strip", "strip_id_or_class", "strip_image_src"}

BooleanDirectives == {"lxml_clean", "prune"}

Line(label, content) == [label |-> label, content |-> content]

Contents(file, label) ==
    LET Is(l) == l.label = label
        ls == SelectSeq(file, Is)
    IN  [i \in 1..Len(ls) |-> ls[i].content]

Min(a, b) == IF a < b THEN a ELSE b

\* the boolean directives: false only when the last occurrence says "no"
FlagValue(file, label) ==
    LET cs == Contents(file, label)
    IN  IF cs = <<>> THEN TRUE ELSE cs[Len(cs)] # <<"no">>

\* saulify.sitespec.load_rules: a dict whose keys are the directives the
\* file sets; missing keys read as the empty list (defaultdict)
load_rules(file) ==
    LET finds == Contents(file, "find_string")
        repls == Contents(file, "replace_string")
        pairs == [i \in 1..Min(Len(finds), Len(repls)) |-> <<finds[i], repls[i]>>]
    IN  [keys |-> {k \in ListDirectives : Contents(file, k) # <<>>}
                  \cup {k \in BooleanDirectives : ~FlagValue(file, k)}
                  \cup (IF pairs # <<>> THEN {"find_replace"} ELSE {}),
         v |-> [title |-> Contents(file, "title"),
                date |-> Contents(file, "date"),
                footnotes |-> Contents(file, "footnotes"),
                author |-> Contents(file, "author"),
                body |-> Contents(file, "body"),
                strip |-> Contents(file, "strip"),
                strip_id_or_class |-> Contents(file, "strip_id_or_class"),
                strip_image_src |-> Contents(file, "strip_image_src"),
                find_replace |-> pairs,
                lxml_clean |-> FlagValue(file, "lxml_clean"),
                prune |-> FlagValue(file, "prune")]]

NoRules == load_rules(<<>>)

(***************************************************************************)
(* Hostnames.  A hostname is the sequence of its dot-separated labels, so  *)
(* "a.b" is <<"a", "b">>, "a." is <<"a", "">> and "" is <<"">>.            *)
(***************************************************************************)
Labels == {"a", "b", ""}

Hostnames == UNION {[1..n -> Labels] : n \in 1..MaxLabels}

EmptyStr == <<"">>

\* hostname.partition(".")[2]
super_domain(h) == IF Len(h) > 1 THEN Tail(h) ELSE EmptyStr

\* cascade.load_sitespec: io.open raises IOError when sitespecs/ holds no
\* file for the exact hostname
load_sitespec(files, h) ==
    IF h \in DOMAIN files
    THEN [raised |-> "", value |-> load_rules(files[h])]
    ELSE [raised |-> "IOError", value |-> NoRules]

RECURSIVE load_superdomains_accepts_empty(_, _)
load_superdomains_accepts_empty(files, h) ==
    LET r == load_sitespec(files, h)
    IN  IF r.raised = "IOError"
        THEN IF super_domain(h) # EmptyStr
             THEN load_superdomains_accepts_empty(files, super_domain(h))
             ELSE None
        ELSE Some(r.value)

RECURSIVE load_superdomains_least_specific(_, _)
load_superdomains_least_specific(files, h) ==
    LET r == load_sitespec(files, h)
        d == IF r.raised = "IOError" THEN NoRules ELSE r.value
        up == IF super_domain(h) # EmptyStr
              THEN load_superdomains_least_specific(files, super_domain(h))
              ELSE None
    IN  IF up # None THEN up ELSE IF d.keys = {} THEN None ELSE Some(d)

RECURSIVE load_superdomains(_, _)
load_superdomains(files, h) ==
    LET r == load_sitespec(files, h)
        d == IF r.raised = "IOError" THEN NoRules ELSE r.value
    IN  IF d.keys = {}
        THEN IF super_domain(h) # EmptyStr
             THEN load_superdomains(files, super_domain(h))
             ELSE None
        ELSE Some(d)

(***************************************************************************)
(* XPath expressions of the rule files.  An expression is a sequence of    *)
(* lexemes: <<"//*[@id=", c1, .., cn, "]">> selects the elements whose id  *)
(* is the string c1..cn, likewise "//*[@class=", and <<"//", tag>> selects *)
(* by tag.  Anything else does not compile.                                *)
(***************************************************************************)
ById(val) == <<"//*[@id=">> \o val \o <<"]">>

ByClass(val) == <<"//*[@class=">> \o val \o <<"]">>

ByTag(tag) == <<"//", tag>>

Malformed == <<"//*[">>

content_ == <<"c", "o", "n", "t", "e", "n", "t">>

ad_ == <<"a", "d">>

class1_ == <<"c", "l", "a", "s", "s", "1">>

notclass1_ == <<"n", "o", "t">> \o class1_

(***************************************************************************)
(* The resolver on its own: a hostname and a sitespecs/ directory are      *)
(* drawn, load_superdomains is applied.  load_superdomains opens only      *)
(* files named by suffixes of the hostname; the directory holds at most    *)
(* MaxFiles files, named by runs of consecutive labels of the hostname     *)
(* (suffixes, and prefixes and infixes that must not match).               *)
(***************************************************************************)
FileBlank == <<>>

FilePruneYes == <<Line("prune", <<"yes">>)>>

FilePruneNo == <<Line("prune", <<"no">>)>>

FileStrip == <<Line("strip", ByClass(ad_))>>

FileTestsOnly == <<Line("test_url", <<"u">>), Line("find_string", <<"x">>)>>

FileReplace == <<Line("find_string", <<"x">>), Line("replace_string", <<"y">>)>>

ResolverFiles ==
    {FileBlank, FilePruneYes, FileTestsOnly, FilePruneNo, FileStrip, FileReplace}

Runs(h) == {SubSeq(h, i, j) : i \in 1..Len(h), j \in 1..Len(h)} \ {<<>>, EmptyStr}

Directories(h, contents) ==
    UNION {[K -> contents] :
             K \in {S \in SUBSET Runs(h) : Cardinality(S) <= MaxFiles}}

InitResolver ==
    /\ pc = "start"
    /\ hostname \in Hostnames
    /\ sitespecs \in Directories(hostname, ResolverFiles)
    /\ spec = NoRules
    /\ source = <<>>
    /\ elem = 0
    /\ extern = <<>>
    /\ testcase = <<>>
    /\ ret = None

CallLoadSuperdomains ==
    /\ pc = "start"
    /\ pc' = "load_superdomains"
    /\ ret' = load_superdomains(sitespecs, hostname)
    /\ UNCHANGED <<sitespecs, hostname, spec, source, elem, extern, testcase>>

NextResolver == CallLoadSuperdomains

SpecResolver == InitResolver /\ [][NextResolver]_vars

\* the hostname's suffixes, most specific first
Suffix(h, i) == SubSeq(h, i, Len(h))

\* a file with no list directive, no find/replace pair and no flag set to "no"
NoDirectives(file) ==
    /\ \A i \in 1..Len(file) : file[i].label \notin ListDirectives
    /\ \A f \in BooleanDirectives :
          \A i \in 1..Len(file) :
             (file[i].label = f /\ \A j \in (i + 1)..Len(file) : file[j].label # f)
                => file[i].content # <<"no">>
    /\ \/ \A i \in 1..Len(file) : file[i].label # "find_string"
       \/ \A i \in 1..Len(file) : file[i].label # "replace_string"

HasRules(files, k) == k \in DOMAIN files /\ ~NoDirectives(files[k])

Matching(files, h) == {i \in 1..Len(h) : HasRules(files, Suffix(h, i))}

\* C1: load_superdomains(H) returns the rule set stored under the longest
\* suffix of H that has a non-empty rule set, and None when there is none.
C1_LongestSuffix ==
    pc = "load_superdomains" =>
        LET m == Matching(sitespecs, hostname)
        IN  IF m = {}
            THEN ret = None
            ELSE LET i == CHOOSE i \in m : \A j \in m : i <= j
                 IN  ret = Some(load_rules(sitespecs[Suffix(hostname, i)]))

\* news.example.com with rule sets for example.com and com
C1_Witness ==
    /\ pc = "load_superdomains"
    /\ Len(hostname) = 3
    /\ Matching(sitespecs, hostname) = {2, 3}
    /\ sitespecs[Suffix(hostname, 2)] # sitespecs[Suffix(hostname, 3)]
    /\ ret = Some(load_rules(sitespecs[Suffix(hostname, 2)]))

Without(files, k) == [x \in DOMAIN files \ {k} |-> files[x]]

LoadsEmpty(files, k) == k \in DOMAIN files /\ NoDirectives(files[k])

\* C2: a rule set that loads with every directive list empty and no boolean
\* override resolves exactly as if its file were missing.
C2_EmptyIsMissing ==
    pc = "load_superdomains" =>
        \A i \in 1..Len(hostname) :
            LoadsEmpty(sitespecs, Suffix(hostname, i)) =>
                ret = load_superdomains(Without(sitespecs, Suffix(hostname, i)), hostname)

\* an empty rule set at the hostname itself, a real one further up
C2_Witness ==
    /\ pc = "load_superdomains"
    /\ Len(hostname) >= 2
    /\ LoadsEmpty(sitespecs, hostname)
    /\ sitespecs[hostname] # FileBlank
    /\ HasRules(sitespecs, Suffix(hostname, 2))
    /\ ret = Some(load_rules(sitespecs[Suffix(hostname, 2)]))
(***************************************************************************)
(* Markup.  The page source is a sequence of tokens: opening tags, closing *)
(* tags and single characters of text.                                     *)
(***************************************************************************)
VoidTags == {"<br>", "<img src=ad>"}

OpenTags ==
    {"<html>", "<div>", "<p>", "<h1>", "<script>",
     "<div id=content>", "<div class=ad>", "<div class=notclass1>",
     "<p class=class1>"} \cup VoidTags

TagOf(t) ==
    CASE t = "<html>" -> "html"
      [] t \in {"<div>", "<div id=content>", "<div class=ad>",
                "<div class=notclass1>"} -> "div"
      [] t \in {"<p>", "<p class=class1>"} -> "p"
      [] t = "<h1>" -> "h1"
      [] t = "<script>" -> "script"
      [] t = "<br>" -> "br"
      [] t = "<img src=ad>" -> "img"

IdOf(t) == IF t = "<div id=content>" THEN content_ ELSE <<>>

ClassOf(t) ==
    CASE t = "<div class=ad>" -> ad_
      [] t = "<div class=notclass1>" -> notclass1_
      [] t = "<p class=class1>" -> class1_
      [] OTHER -> <<>>

SrcOf(t) == IF t = "<img src=ad>" THEN ad_ ELSE <<>>

CloseTag(tag) ==
    CASE tag = "html" -> "</html>"
      [] tag = "div" -> "</div>"
      [] tag = "p" -> "</p>"
      [] tag = "h1" -> "</h1>"
      [] tag = "script" -> "</script>"

CloseTags == {"</html>", "</div>", "</p>", "</h1>", "</script>"}

\* the three character classes of _maybe_prune: \s, [\w,\.] and the rest
WhitespaceChars == {" ", "\n"}

NonSpecialChars == {"a", "b", "x", "y", "A", "B", ",", "."}

SpecialChars == {"@", "#"}

(***************************************************************************)
(* The parsed document (lxml): node i of the sequence is the i-th element  *)
(* in document order; parent = 0 for the root element (node 1) and for an  *)
(* element that has been removed from its parent.                          *)
(***************************************************************************)
Node(parent, open, text, tail) ==
    [parent |-> parent, open |-> open, text |-> text, tail |-> tail]

Children(doc, p) == {c \in DOMAIN doc : doc[c].parent = p}

RECURSIVE SortedSeq(_)
SortedSeq(S) ==
    IF S = {} THEN <<>>
    ELSE LET m == CHOOSE x \in S : \A y \in S : x <= y
         IN  <<m>> \o SortedSeq(S \ {m})

\* e.xpath("*"): the child elements, in document order
ChildSeq(doc, p) == SortedSeq(Children(doc, p))

RECURSIVE Ancestors(_, _)
Ancestors(doc, n) ==
    IF doc[n].parent = 0 THEN {}
    ELSE {doc[n].parent} \cup Ancestors(doc, doc[n].parent)

Subtree(doc, n) == {m \in DOMAIN doc : m = n \/ n \in Ancestors(doc, m)}

\* the elements an absolute path (//...) can select: those still linked to
\* the document's root element
InDocument(doc) == Subtree(doc, 1)

\* lxml.html.fromstring, as a stack machine over the tokens.  st.open is
\* the stack of open elements, st.last the element closed last at the
\* current level (text after it is its tail).
ParseToken(st, t) ==
    LET top == IF st.open = <<>> THEN 0 ELSE st.open[Len(st.open)]
        n == Len(st.doc) + 1
    IN  IF t \in OpenTags
        THEN IF st.doc # <<>> /\ top = 0
             THEN st
             ELSE [doc |-> Append(st.doc, Node(top, t, <<>>, <<>>)),
                   open |-> IF t \in VoidTags THEN st.open ELSE Append(st.open, n),
                   last |-> IF t \in VoidTags THEN n ELSE 0]
        ELSE IF t \in CloseTags
        THEN IF top # 0 /\ CloseTag(TagOf(st.doc[top].open)) = t
             THEN [doc |-> st.doc,
                   open |-> SubSeq(st.open, 1, Len(st.open) - 1),
                   last |-> top]
             ELSE st
        ELSE IF st.last # 0
        THEN [st EXCEPT !.doc[st.last].tail = @ \o <<t>>]
        ELSE IF top # 0
        THEN [st EXCEPT !.doc[top].text = @ \o <<t>>]
        ELSE st

RECURSIVE ParseFrom(_, _)
ParseFrom(st, src) ==
    IF src = <<>> THEN st ELSE ParseFrom(ParseToken(st, Head(src)), Tail(src))

Parse(src) == ParseFrom([doc |-> <<>>, open |-> <<>>, last |-> 0], src).doc

\* lxml.html.tostring(e): the element, its content, and its tail
RECURSIVE tostring(_, _)
tostring(doc, n) ==
    LET kids == ChildSeq(doc, n)
    IN  <<doc[n].open>> \o doc[n].text
        \o Concat([i \in 1..Len(kids) |-> tostring(doc, kids[i])])
        \o (IF doc[n].open \in VoidTags THEN <<>> ELSE <<CloseTag(TagOf(doc[n].open))>>)
        \o doc[n].tail

\* e.text_content(): the text of the element and of its descendants
RECURSIVE TextContent(_, _)
TextContent(doc, n) ==
    LET kids == ChildSeq(doc, n)
    IN  doc[n].text
        \o Concat([i \in 1..Len(kids) |->
                     TextContent(doc, kids[i]) \o doc[kids[i]].tail])

\* e.drop_tree(): the tail is joined to the previous sibling or the parent,
\* then the element is removed from its parent (lxml asserts it has one)
drop_tree(doc, n) ==
    LET p == doc[n].parent
        before == {c \in Children(doc, p) : c < n}
        prev == CHOOSE c \in before : \A x \in before : x <= c
        joined == IF doc[n].tail = <<>> THEN doc
                  ELSE IF before = {}
                  THEN [doc EXCEPT ![p].text = @ \o doc[n].tail]
                  ELSE [doc EXCEPT ![prev].tail = @ \o doc[n].tail]
    IN  IF p = 0
        THEN [raised |-> "AssertionError", doc |-> doc]
        ELSE [raised |-> "", doc |-> [joined EXCEPT ![n].parent = 0]]
(***************************************************************************)
(* XPath evaluation (lxml's Element.xpath).  An absolute path selects in   *)
(* the whole document whatever element it is called on; "*" selects the    *)
(* children of that element.  The result is in document order.             *)
(***************************************************************************)
\* the paths _strip_id_or_class and _strip_image_src format
ContainsIdOrClass(val) == <<"//*[contains(@class|@id,">> \o val \o <<")]">>

ImgSrcContains(val) == <<"//img[contains(@src,">> \o val \o <<")]">>

Arg(path) == SubSeq(path, 2, Len(path) - 1)

Compiles(path) ==
    \/ path = <<"*">>
    \/ Len(path) = 2 /\ path[1] = "//" /\ path[2] \in {TagOf(t) : t \in OpenTags}
    \/ /\ Len(path) >= 2
       /\ \/ path[1] \in {"//*[@id=", "//*[@class="} /\ path[Len(path)] = "]"
          \/ /\ path[1] \in {"//*[contains(@class|@id,", "//img[contains(@src,"}
             /\ path[Len(path)] = ")]"
       /\ "\"" \notin Range(Arg(path))

Selects_whole_attribute(path, t) ==
    CASE path[1] = "//" -> TagOf(t) = path[2]
      [] path[1] = "//*[@id=" -> IdOf(t) # <<>> /\ IdOf(t) = Arg(path)
      [] path[1] = "//*[@class=" -> ClassOf(t) # <<>> /\ ClassOf(t) = Arg(path)
      [] path[1] = "//*[contains(@class|@id," ->
            ClassOf(t) = Arg(path) \/ IdOf(t) = Arg(path)
      [] path[1] = "//img[contains(@src," ->
            TagOf(t) = "img" /\ SrcOf(t) = Arg(path)

Selects(path, t) ==
    CASE path[1] = "//" -> TagOf(t) = path[2]
      [] path[1] = "//*[@id=" -> IdOf(t) # <<>> /\ IdOf(t) = Arg(path)
      [] path[1] = "//*[@class=" -> ClassOf(t) # <<>> /\ ClassOf(t) = Arg(path)
      [] path[1] = "//*[contains(@class|@id," ->
            Contains(ClassOf(t), Arg(path)) \/ Contains(IdOf(t), Arg(path))
      [] path[1] = "//img[contains(@src," ->
            TagOf(t) = "img" /\ Contains(SrcOf(t), Arg(path))

xpath(doc, e, path) ==
    IF ~Compiles(path)
    THEN [raised |-> "XPathEvalError", nodes |-> <<>>]
    ELSE IF path = <<"*">>
    THEN [raised |-> "", nodes |-> ChildSeq(doc, e)]
    ELSE [raised |-> "",
          nodes |-> SortedSeq({n \in InDocument(doc) : Selects(path, doc[n].open)})]

(***************************************************************************)
(* InstapaperScraper.  `rules` is the dict the scraper was built with;     *)
(* rules.v[k] is spec[k] of the code (a defaultdict: [] for a missing key).*)
(***************************************************************************)
str_replace_first_only(s, find, replace) ==
    IF \E i \in 1..(Len(s) + 1) : IsPrefixAt(s, find, i)
    THEN LET i == CHOOSE i \in 1..(Len(s) + 1) :
                     /\ IsPrefixAt(s, find, i)
                     /\ \A j \in 1..(i - 1) : ~IsPrefixAt(s, find, j)
         IN  SubSeq(s, 1, i - 1) \o replace \o SubSeq(s, i + Len(find), Len(s))
    ELSE s

\* Python source.replace(find, replace)
RECURSIVE str_replace(_, _, _)
str_replace(s, find, replace) ==
    IF find = <<>>
    THEN IF s = <<>> THEN replace
         ELSE replace \o <<Head(s)>> \o str_replace(Tail(s), find, replace)
    ELSE IF s = <<>> THEN <<>>
    ELSE IF IsPrefixAt(s, find, 1)
    THEN replace \o str_replace(SubSeq(s, Len(find) + 1, Len(s)), find, replace)
    ELSE <<Head(s)>> \o str_replace(Tail(s), find, replace)

RECURSIVE find_replace_pairs(_, _)
find_replace_pairs(pairs, src) ==
    IF pairs = <<>> THEN src
    ELSE find_replace_pairs(Tail(pairs),
                            str_replace(src, Head(pairs)[1], Head(pairs)[2]))

_find_replace(rules, src) == find_replace_pairs(rules.v.find_replace, src)

\* lxml's clean_html, as far as the model's markup goes: script elements
\* are removed with their content
RECURSIVE clean_html(_, _)
clean_html(src, inScript) ==
    IF src = <<>> THEN <<>>
    ELSE IF Head(src) = "<script>" THEN clean_html(Tail(src), TRUE)
    ELSE IF Head(src) = "</script>" THEN clean_html(Tail(src), FALSE)
    ELSE IF inScript THEN clean_html(Tail(src), TRUE)
    ELSE <<Head(src)>> \o clean_html(Tail(src), FALSE)

_maybe_clean(rules, src) ==
    IF rules.v.lxml_clean # FALSE THEN clean_html(src, FALSE) ELSE src

\* the nodes of every configured xpath, flattened; evaluated lazily up to
\* `upto` nodes (a generator)
RECURSIVE extract_upto(_, _, _, _)
extract_upto(doc, e, paths, upto) ==
    IF paths = <<>> \/ upto = 0
    THEN [raised |-> "", nodes |-> <<>>]
    ELSE LET r == xpath(doc, e, Head(paths))
             more == extract_upto(doc, e, Tail(paths), upto - Len(r.nodes))
         IN  IF r.raised # "" THEN r
             ELSE IF Len(r.nodes) >= upto
             THEN [raised |-> "", nodes |-> SubSeq(r.nodes, 1, upto)]
             ELSE IF more.raised # "" THEN more
             ELSE [raised |-> "", nodes |-> r.nodes \o more.nodes]

_extract_all(doc, e, rules, component) ==
    LET paths == rules.v[component]
    IN  extract_upto(doc, e, paths, Len(doc) * Len(paths) + 1)

\* next(g, None): the first node, 0 for None
_extract_first(doc, e, rules, component) ==
    LET r == extract_upto(doc, e, rules.v[component], 1)
    IN  [raised |-> r.raised,
         node |-> IF r.nodes = <<>> THEN 0 ELSE r.nodes[1]]

RECURSIVE drop_all(_, _)
drop_all(doc, nodes) ==
    IF nodes = <<>> THEN [raised |-> "", doc |-> doc]
    ELSE LET r == drop_tree(doc, Head(nodes))
         IN  IF r.raised # "" THEN r ELSE drop_all(r.doc, Tail(nodes))

_drop_by_xpath_first_match(doc, e, path) ==
    LET r == xpath(doc, e, path)
    IN  IF r.raised # "" THEN [raised |-> r.raised, doc |-> doc]
        ELSE IF r.nodes = <<>> THEN [raised |-> "", doc |-> doc]
        ELSE drop_tree(doc, r.nodes[1])

_drop_by_xpath(doc, e, path) ==
    LET r == xpath(doc, e, path)
    IN  IF r.raised # "" THEN [raised |-> r.raised, doc |-> doc]
        ELSE drop_all(doc, r.nodes)

RECURSIVE drop_by_xpaths(_, _, _)
drop_by_xpaths(doc, e, paths) ==
    IF paths = <<>> THEN [raised |-> "", doc |-> doc]
    ELSE LET r == _drop_by_xpath(doc, e, Head(paths))
         IN  IF r.raised # "" THEN r ELSE drop_by_xpaths(r.doc, e, Tail(paths))

_strip_nodes(doc, e, rules) == drop_by_xpaths(doc, e, rules.v.strip)

QuoteChars == {" ", "\"", "'"}

id_or_class_xpath(value) == ContainsIdOrClass(Strip(value, QuoteChars))

_strip_id_or_class(doc, e, rules) ==
    LET vals == rules.v.strip_id_or_class
    IN  drop_by_xpaths(doc, e, [i \in 1..Len(vals) |-> id_or_class_xpath(vals[i])])

_strip_image_src(doc, e, rules) ==
    LET vals == rules.v.strip_image_src
    IN  drop_by_xpaths(doc, e,
                       [i \in 1..Len(vals) |-> ImgSrcContains(Strip(vals[i], QuoteChars))])
(***************************************************************************)
(* _maybe_prune.                                                           *)
(***************************************************************************)
\* special_limit = 0.5, as the fraction SpecialLimitNum / SpecialLimitDen
SpecialLimitNum == 1

SpecialLimitDen == 2

Count(s, chars) == Cardinality({i \in 1..Len(s) : s[i] \in chars})

\* float(sc) / (sc + nsc) > special_limit, for sc + nsc > 0
over_limit_inclusive(sc, nsc) == sc * SpecialLimitDen >= SpecialLimitNum * (sc + nsc)

over_limit(sc, nsc) == sc * SpecialLimitDen > SpecialLimitNum * (sc + nsc)

\* the test prune_element applies to an element without children
drops_leaf(tag, text) ==
    LET content == Strip(text, WhitespaceChars)
        nsc == Count(content, NonSpecialChars)
        wc == Count(content, WhitespaceChars)
        sc == Len(content) - wc - nsc
    IN  /\ tag \notin {"br"}
        /\ sc + nsc = 0 \/ over_limit(sc, nsc)

RECURSIVE prune_element(_, _)
RECURSIVE prune_elements(_, _)
prune_elements(doc, es) ==
    IF es = <<>> THEN doc
    ELSE prune_elements(prune_element(doc, Head(es)), Tail(es))

prune_element(doc, e) ==
    LET d == prune_elements(doc, ChildSeq(doc, e))
    IN  IF Children(d, e) # {} THEN d
        ELSE IF drops_leaf(TagOf(d[e].open), TextContent(d, e))
        THEN drop_tree(d, e).doc
        ELSE d

_maybe_prune(doc, e, rules) ==
    IF rules.v.prune # FALSE THEN prune_elements(doc, ChildSeq(doc, e)) ELSE doc

(***************************************************************************)
(* clean_article.                                                          *)
(***************************************************************************)
Dict(keys, v) == [keys |-> keys, v |-> v]

NoFields ==
    [date |-> <<>>, title |-> <<>>, footnotes |-> <<>>, authors |-> <<>>,
     html |-> <<>>, markdown |-> <<>>, markdown_html |-> <<>>, plaintext |-> <<>>]

EmptyDict == Dict({}, NoFields)

\* ", ".join(texts)
RECURSIVE join(_)
join(texts) ==
    IF texts = <<>> THEN <<>>
    ELSE IF Len(texts) = 1 THEN texts[1]
    ELSE texts[1] \o <<",", " ">> \o join(Tail(texts))

stripped_text(doc, n) == Strip(TextContent(doc, n), WhitespaceChars)

FirstRaised(rs) ==
    IF \A i \in 1..Len(rs) : rs[i] = "" THEN ""
    ELSE rs[CHOOSE i \in 1..Len(rs) : rs[i] # "" /\ \A j \in 1..(i - 1) : rs[j] = ""]

\* the DOM half of clean_article: from the parsed page to the result
clean_etree(rules, etree) ==
    LET date == _extract_first(etree, 1, rules, "date")
        title == _extract_first(etree, 1, rules, "title")
        footnotes == _extract_first(etree, 1, rules, "footnotes")
        authors == _extract_all(etree, 1, rules, "author")
        maybe_body == _extract_first(etree, 1, rules, "body")
        body == IF maybe_body.node # 0 THEN maybe_body.node ELSE 1
        d1 == _strip_nodes(etree, body, rules)
        d2 == _strip_id_or_class(d1.doc, body, rules)
        d3 == _strip_image_src(d2.doc, body, rules)
        d4 == _maybe_prune(d3.doc, body, rules)
        raised == FirstRaised(<<date.raised, title.raised, footnotes.raised,
                                authors.raised, maybe_body.raised,
                                d1.raised, d2.raised, d3.raised>>)
        keys == {"authors", "html"}
                \cup (IF date.node # 0 THEN {"date"} ELSE {})
                \cup (IF title.node # 0 THEN {"title"} ELSE {})
                \cup (IF footnotes.node # 0 THEN {"footnotes"} ELSE {})
        text(r) == IF r.node # 0 THEN stripped_text(etree, r.node) ELSE <<>>
    IN  IF raised # ""
        THEN [raised |-> raised, result |-> EmptyDict, doc |-> etree, body |-> 0]
        ELSE [raised |-> "",
              result |->
                 Dict(keys,
                      [NoFields EXCEPT
                         !.date = text(date),
                         !.title = text(title),
                         !.footnotes = text(footnotes),
                         !.authors = join([i \in 1..Len(authors.nodes) |->
                                             stripped_text(etree, authors.nodes[i])]),
                         !.html = tostring(d4, body)]),
              doc |-> d4,
              body |-> body]

clean_article(rules, src) ==
    LET etree == Parse(_maybe_clean(rules, _find_replace(rules, src)))
    IN  IF etree = <<>>
        THEN [raised |-> "ParserError", result |-> EmptyDict, doc |-> etree, body |-> 0]
        ELSE clean_etree(rules, etree)
(***************************************************************************)
(* Pages.  A page is the serialization of a well-formed document of at     *)
(* most MaxNodes elements under an <html> root: the elements are numbered  *)
(* in document order, and a void element has neither text nor children.    *)
(***************************************************************************)
Shapes(n) ==
    {p \in [1..n -> 0..(n - 1)] :
        /\ p[1] = 0
        /\ \A i \in 2..n : p[i] \in 1..(i - 1)
        /\ \A i \in 3..n : \A j \in (p[i] + 1)..(i - 1) : p[j] >= p[i]}

Documents(opens, texts, tails) ==
    UNION {
      {d \in {[i \in 1..n |->
                 Node(p[i],
                      IF i = 1 THEN "<html>" ELSE o[i],
                      IF i # 1 /\ o[i] \in VoidTags THEN <<>> ELSE x[i],
                      IF i = 1 THEN <<>> ELSE t[i])] :
              p \in Shapes(n), o \in [1..n -> opens],
              x \in [1..n -> texts], t \in [1..n -> tails]} :
         \A i \in 1..n : d[i].open \in VoidTags => Children(d, i) = {}}
      : n \in 1..MaxNodes}

Pages(opens, texts, tails) == {tostring(d, 1) : d \in Documents(opens, texts, tails)}

(***************************************************************************)
(* _maybe_prune on its own: a page is parsed, one of its elements is the   *)
(* body, and the rule set enables or disables pruning.                     *)
(***************************************************************************)
PrunePages ==
    Pages({"<div>", "<br>"}, {<<>>, <<"a">>, <<"@">>}, {<<>>, <<" ", "@">>})

InitPrune ==
    /\ pc = "start"
    /\ source \in PrunePages
    /\ elem \in {1, 2} \cap DOMAIN Parse(source)
    /\ spec \in {NoRules, load_rules(FilePruneNo), load_rules(FilePruneYes)}
    /\ sitespecs = <<>>
    /\ hostname = EmptyStr
    /\ extern = <<>>
    /\ testcase = <<>>
    /\ ret = None

CallMaybePrune ==
    /\ pc = "start"
    /\ pc' = "_maybe_prune"
    /\ ret' = _maybe_prune(Parse(source), elem, spec)
    /\ UNCHANGED <<sitespecs, hostname, spec, source, elem, extern, testcase>>

NextPrune == CallMaybePrune

SpecPrune == InitPrune /\ [][NextPrune]_vars

\* the text an element has once all of its children are gone: its own text
\* followed by the children's tails
LeafText(doc, n) ==
    LET kids == ChildSeq(doc, n)
    IN  Strip(doc[n].text \o Concat([i \in 1..Len(kids) |-> doc[kids[i]].tail]),
              WhitespaceChars)

Special(text) == Count(text, SpecialChars)

NonSpecial(text) == Count(text, NonSpecialChars)

RECURSIVE ShouldPrune(_, _)
ShouldPrune(doc, n) ==
    /\ \A c \in Children(doc, n) : ShouldPrune(doc, c)
    /\ TagOf(doc[n].open) # "br"
    /\ LET sp == Special(LeafText(doc, n))
           ns == NonSpecial(LeafText(doc, n))
       IN  sp + ns = 0 \/ 2 * sp > sp + ns

PruneEnabled == "prune" \notin spec.keys

\* C5: PruneFilter deletes a node below the body root iff, its children
\* processed, none of them remains, its tag is not br, and its trimmed text
\* has special + nonspecial = 0 or special / (special + nonspecial) > 0.5;
\* nothing is deleted when the prune flag is disabled.
C5_PruneIff ==
    pc = "_maybe_prune" =>
        LET doc == Parse(source)
        IN  /\ DOMAIN ret = DOMAIN doc
            /\ \A n \in DOMAIN doc :
                  IF n \in Subtree(doc, elem) \ {elem}
                  THEN (ret[n].parent = 0) <=> (PruneEnabled /\ ShouldPrune(doc, n))
                  ELSE ret[n].parent = doc[n].parent

\* a child is pruned and its tail joins the parent's text, which leaves the
\* parent a leaf exactly at the threshold: the parent is kept
C5_Witness ==
    /\ pc = "_maybe_prune"
    /\ LET doc == Parse(source)
       IN  \E n \in Subtree(doc, elem) \ {elem} :
              /\ Children(doc, n) # {}
              /\ \A c \in Children(doc, n) : ret[c].parent = 0
              /\ Special(LeafText(doc, n)) = 1
              /\ NonSpecial(LeafText(doc, n)) = 1
              /\ ret[n].parent # 0
(***************************************************************************)
(* _find_replace on its own: a text and a rule file of find_string /       *)
(* replace_string lines are drawn.                                         *)
(***************************************************************************)
Texts == SeqsUpTo({"a", "b"}, MaxSrcLen)

Finds == {<<>>, <<"a", "a">>, <<"a", "b">>}

Replacements == {<<>>, <<"b", "a">>, <<"a", "b", "a", "b">>}

PairLines(pairs) ==
    Concat([i \in 1..Len(pairs) |->
              <<Line("find_string", pairs[i][1]), Line("replace_string", pairs[i][2])>>])

InitFindReplace ==
    /\ pc = "start"
    /\ source \in Texts
    /\ \E pairs \in SeqsUpTo(Finds \X Replacements, MaxPairs) :
          spec = load_rules(PairLines(pairs))
    /\ elem = 0
    /\ sitespecs = <<>>
    /\ hostname = EmptyStr
    /\ extern = <<>>
    /\ testcase = <<>>
    /\ ret = None

CallFindReplace ==
    /\ pc = "start"
    /\ pc' = "_find_replace"
    /\ ret' = _find_replace(spec, source)
    /\ UNCHANGED <<sitespecs, hostname, spec, source, elem, extern, testcase>>

NextFindReplace == CallFindReplace

SpecFindReplace == InitFindReplace /\ [][NextFindReplace]_vars

\* the occurrences of `find` a left-to-right scan replaces: an occurrence is
\* chosen iff no earlier chosen occurrence overlaps it
Occurrences(s, find) == {i \in 1..Len(s) : IsPrefixAt(s, find, i)}

Replaced(s, find) ==
    LET chosen[i \in 1..Len(s)] ==
            /\ i \in Occurrences(s, find)
            /\ \A p \in 1..(i - 1) : i < p + Len(find) => ~chosen[p]
    IN  {i \in 1..Len(s) : chosen[i]}

OnePass(s, find, replace) ==
    IF find = <<>>
    THEN Concat([i \in 1..Len(s) |-> replace \o <<s[i]>>]) \o replace
    ELSE LET P == Replaced(s, find)
         IN  Concat([i \in 1..Len(s) |->
                       IF i \in P THEN replace
                       ELSE IF \E p \in P : p < i /\ i < p + Len(find) THEN <<>>
                       ELSE <<s[i]>>])

RECURSIVE InOrder(_, _)
InOrder(pairs, s) ==
    IF pairs = <<>> THEN s
    ELSE InOrder(Tail(pairs), OnePass(s, pairs[1][1], pairs[1][2]))

\* C8: find_replace applies each (find, replace) pair once, in declaration
\* order, as a literal left-to-right replacement on the text the previous
\* pairs produced, without rescanning the text a replacement introduced.
C8_SinglePass ==
    pc = "_find_replace" => ret = InOrder(spec.v.find_replace, source)

\* find "ab", replace "abab" on "ab" yields "abab"
C8_Witness ==
    /\ pc = "_find_replace"
    /\ source = <<"a", "b">>
    /\ spec.v.find_replace = << <<(<<"a", "b">>), (<<"a", "b", "a", "b">>)>> >>
    /\ ret = <<"a", "b", "a", "b">>
(***************************************************************************)
(* The scraper on its own: a page and a rule file are drawn; clean_article *)
(* is applied to the page, or _strip_id_or_class to its parsed document.   *)
(***************************************************************************)
EnginePages ==
    Pages({"<div id=content>", "<div class=ad>", "<div class=notclass1>", "<img src=ad>"},
          {<<"x">>}, {<<"y">>})

Quoted(val) == <<"\"">> \o val \o <<"\"">>

BodyLines ==
    {<<>>,
     <<Line("body", ById(content_))>>,
     <<Line("body", ByClass(class1_)), Line("body", ById(content_))>>,
     <<Line("body", Malformed)>>}

StripLines ==
    {<<>>,
     <<Line("strip", ByClass(ad_))>>,
     <<Line("strip", ById(content_)), Line("strip", ByClass(ad_))>>,
     <<Line("strip", ByTag("html"))>>}

StripIdOrClassLines ==
    {<<>>,
     <<Line("strip_id_or_class", Quoted(class1_))>>,
     <<Line("strip_id_or_class", ad_)>>}

StripImageSrcLines == {<<>>, <<Line("strip_image_src", Quoted(ad_))>>}

PruneLines == {<<>>, <<Line("prune", <<"no">>)>>}

EngineFiles ==
    {b \o s \o c \o i \o p :
       b \in BodyLines, s \in StripLines, c \in StripIdOrClassLines,
       i \in StripImageSrcLines, p \in PruneLines}

InitEngine ==
    /\ pc = "start"
    /\ source \in EnginePages
    /\ \E file \in EngineFiles : spec = load_rules(file)
    /\ elem = 1
    /\ sitespecs = <<>>
    /\ hostname = EmptyStr
    /\ extern = <<>>
    /\ testcase = <<>>
    /\ ret = None

CallCleanArticle ==
    /\ pc = "start"
    /\ pc' = "clean_article"
    /\ ret' = clean_article(spec, source)
    /\ UNCHANGED <<sitespecs, hostname, spec, source, elem, extern, testcase>>

CallStripIdOrClass ==
    /\ pc = "start"
    /\ pc' = "_strip_id_or_class"
    /\ ret' = _strip_id_or_class(Parse(source), elem, spec)
    /\ UNCHANGED <<sitespecs, hostname, spec, source, elem, extern, testcase>>

NextEngine == CallCleanArticle \/ CallStripIdOrClass

SpecEngine == InitEngine /\ [][NextEngine]_vars

\* the document clean_article works on
Parsed == Parse(_maybe_clean(spec, _find_replace(spec, source)))

MatchedBy(doc, paths, n) ==
    \E i \in 1..Len(paths) : Compiles(paths[i]) /\ Selects(paths[i], doc[n].open)

\* the first node of the first body xpath that selects anything, else the
\* whole document
BodyRoot(doc) ==
    LET paths == spec.v.body
        hits(i) == {n \in DOMAIN doc : Selects(paths[i], doc[n].open)}
        first == {i \in 1..Len(paths) : hits(i) # {} /\ \A j \in 1..(i - 1) : hits(j) = {}}
    IN  IF first = {} THEN 1
        ELSE LET i == CHOOSE i \in first : TRUE
             IN  CHOOSE n \in hits(i) : \A m \in hits(i) : n <= m

\* the elements a strip xpath selects, with their subtrees
Stripped(doc) ==
    {n \in DOMAIN doc :
        \E m \in {n} \cup Ancestors(doc, n) : MatchedBy(doc, spec.v.strip, m)}

\* the serialization of element n, from its opening to its closing tag,
\* without the elements of `gone` (the text that follows them stays)
RECURSIVE SerializeWithout(_, _, _)
SerializeWithout(doc, n, gone) ==
    LET kids == ChildSeq(doc, n)
    IN  <<doc[n].open>> \o doc[n].text
        \o Concat([i \in 1..Len(kids) |->
                     (IF kids[i] \in gone THEN <<>>
                      ELSE SerializeWithout(doc, kids[i], gone))
                     \o doc[kids[i]].tail])
        \o (IF doc[n].open \in VoidTags THEN <<>> ELSE <<CloseTag(TagOf(doc[n].open))>>)

\* lxml serializes an element with the text that trails it
IsElementWithTail(html, element) ==
    /\ Len(html) >= Len(element)
    /\ SubSeq(html, 1, Len(element)) = element
    /\ \A i \in (Len(element) + 1)..Len(html) : html[i] \notin OpenTags \cup CloseTags

IdOrClassValues ==
    {Strip(spec.v.strip_id_or_class[i], QuoteChars) :
        i \in 1..Len(spec.v.strip_id_or_class)}

ImageSrcValues ==
    {Strip(spec.v.strip_image_src[i], QuoteChars) :
        i \in 1..Len(spec.v.strip_image_src)}

HasIdOrClass(t) ==
    \E val \in IdOrClassValues : Contains(ClassOf(t), val) \/ Contains(IdOf(t), val)

HasImageSrc(t) ==
    TagOf(t) = "img" /\ \E val \in ImageSrcValues : Contains(SrcOf(t), val)

\* no strip directive removes the body root or one of its ancestors
BodyStays(doc) ==
    \A m \in {BodyRoot(doc)} \cup Ancestors(doc, BodyRoot(doc)) :
        /\ ~MatchedBy(doc, spec.v.strip, m)
        /\ ~HasIdOrClass(doc[m].open)
        /\ ~HasImageSrc(doc[m].open)

OnlyStrips ==
    /\ spec.v.strip_id_or_class = <<>>
    /\ spec.v.strip_image_src = <<>>
    /\ spec.v.prune = FALSE

C7_SubstringMatch ==
    (pc = "_strip_id_or_class" /\ ret.raised = "") =>
        LET doc == Parse(source)
        IN  \A n \in DOMAIN doc :
               n \in InDocument(ret.doc)
                  <=> \A m \in {n} \cup Ancestors(doc, n) : ~HasIdOrClass(doc[m].open)

\* "class1" (quoted in the rule file) removes an element of class notclass1
C7_Witness ==
    /\ pc = "_strip_id_or_class"
    /\ ret.raised = ""
    /\ spec.v.strip_id_or_class = <<Quoted(class1_)>>
    /\ \E n \in DOMAIN ret.doc :
          /\ ClassOf(ret.doc[n].open) = notclass1_
          /\ n \notin InDocument(ret.doc)
(***************************************************************************)
(* scraper_cascade.  `ext` holds what the collaborators outside this code  *)
(* do on the call: newspaper.clean_source returns a dict (empty for None)  *)
(* or raises, html2text and markdown2 convert or raise.                    *)
(***************************************************************************)
\* newspaper.clean_source(url, content) or {"html": content}
newspaper_or_page(returned, content) ==
    IF returned.keys # {} THEN returned
    ELSE Dict({"html"}, [NoFields EXCEPT !.html = content])

merge_items_unconditional(result, override) ==
    Dict(result.keys \cup override.keys,
         [k \in DOMAIN result.v |->
             IF k \in override.keys THEN override.v[k] ELSE result.v[k]])

\* for k, v in override.items(): if v: result[k] = v
merge_items(result, override) ==
    Dict(result.keys \cup {k \in override.keys : override.v[k] # <<>>},
         [k \in DOMAIN result.v |->
             IF k \in override.keys /\ override.v[k] # <<>>
             THEN override.v[k] ELSE result.v[k]])

\* html2text: the text of the page, a heading marked, a line per block
RECURSIVE html2text(_)
html2text(html) ==
    IF html = <<>> THEN <<>>
    ELSE (CASE Head(html) = "<h1>" -> <<"#", " ">>
            [] Head(html) \in CloseTags \cup {"<br>"} -> <<"\n">>
            [] Head(html) \in OpenTags \ {"<h1>", "<br>"} -> <<>>
            [] OTHER -> <<Head(html)>>)
         \o html2text(Tail(html))

\* markdown2.markdown: the text in a paragraph, line ends dropped
markdown2(md) ==
    LET NotNewline(c) == c # "\n"
    IN  <<"<p>">> \o SelectSeq(md, NotNewline) \o <<"</p>">>

render_keeps_existing(result, ext) ==
    IF "html" \notin result.keys THEN [raised |-> "KeyError", result |-> EmptyDict]
    ELSE IF ext.html2text = "raise" \/ ext.markdown2 = "raise"
    THEN [raised |-> "Exception", result |-> EmptyDict]
    ELSE LET md == IF "markdown" \in result.keys THEN result.v.markdown
                   ELSE html2text(result.v.html)
         IN  [raised |-> "",
              result |->
                 Dict(result.keys \cup {"markdown", "markdown_html", "plaintext"},
                      [result.v EXCEPT
                         !.markdown = md,
                         !.markdown_html = markdown2(md),
                         !.plaintext = str_replace(md, <<"\n">>, <<" ">>)])]

\* the "Add markdown (and plaintext)" lines of scraper_cascade
render(result, ext) ==
    IF "html" \notin result.keys THEN [raised |-> "KeyError", result |-> EmptyDict]
    ELSE IF ext.html2text = "raise" \/ ext.markdown2 = "raise"
    THEN [raised |-> "Exception", result |-> EmptyDict]
    ELSE LET md == html2text(result.v.html)
         IN  [raised |-> "",
              result |->
                 Dict(result.keys \cup {"markdown", "markdown_html", "plaintext"},
                      [result.v EXCEPT
                         !.markdown = md,
                         !.markdown_html = markdown2(md),
                         !.plaintext = str_replace(md, <<"\n">>, <<" ">>)])]

\* each stage's value is bound once, as the local variables of the code are
scraper_cascade_skips_failed_extractor(files, host, content, ext) ==
    LET result == newspaper_or_page(IF ext.newspaper.raised # "" THEN EmptyDict
                                    ELSE ext.newspaper.returned, content)
    IN
        CHOOSE out \in
          {IF rules = None THEN render(result, ext)
           ELSE CHOOSE out2 \in
                  {IF override.raised # ""
                   THEN [raised |-> override.raised, result |-> EmptyDict]
                   ELSE CHOOSE out3 \in
                          {render(merged, ext) :
                             merged \in {merge_items(result, override.result)}} : TRUE :
                     override \in {clean_article(rules[1], content)}} : TRUE :
             rules \in {load_superdomains(files, host)}} : TRUE

scraper_cascade(files, host, content, ext) ==
    LET result == newspaper_or_page(ext.newspaper.returned, content)
    IN  IF ext.newspaper.raised # ""
        THEN [raised |-> ext.newspaper.raised, result |-> EmptyDict]
        ELSE
        CHOOSE out \in
          {IF rules = None THEN render(result, ext)
           ELSE CHOOSE out2 \in
                  {IF override.raised # ""
                   THEN [raised |-> override.raised, result |-> EmptyDict]
                   ELSE CHOOSE out3 \in
                          {render(merged, ext) :
                             merged \in {merge_items(result, override.result)}} : TRUE :
                     override \in {clean_article(rules[1], content)}} : TRUE :
             rules \in {load_superdomains(files, host)}} : TRUE

(***************************************************************************)
(* The cascade: a hostname, a sitespecs/ directory, a page and the         *)
(* behaviour of the collaborators are drawn, scraper_cascade is applied.   *)
(***************************************************************************)
PageArticle ==
    <<"<html>", "<h1>", "B", "</h1>", "<div id=content>", "y", "</div>", "</html>">>

PageUntitled ==
    <<"<html>", "<h1>", "</h1>", "<div id=content>", "y", "<br>", "</div>", "</html>">>

PagePlain == <<"<html>", "b", "</html>">>

CascadePages == {PageArticle, PageUntitled, PagePlain}

FileTitleBody ==
    <<Line("title", ByTag("h1")), Line("author", ByTag("h1")),
      Line("body", ById(content_))>>

FileBadBody == <<Line("body", Malformed)>>

CascadeFiles == {FileBlank, FilePruneNo, FileTitleBody, FileBadBody}

CascadeHosts == {<<"a", "b">>, <<"b">>}

Extracted == <<"<p>", "x", "</p>">>

Stale == <<"o", "l", "d">>

NewspaperOutcomes ==
    {[raised |-> "Exception", returned |-> EmptyDict],
     [raised |-> "", returned |-> EmptyDict],
     [raised |-> "",
      returned |-> Dict({"title", "html"},
                        [NoFields EXCEPT !.title = <<"A">>, !.html = Extracted])],
     [raised |-> "",
      returned |-> Dict({"title", "authors", "html", "markdown", "markdown_html", "plaintext"},
                        [NoFields EXCEPT !.title = <<"A">>, !.authors = <<"C">>,
                                         !.html = Extracted, !.markdown = Stale,
                                         !.markdown_html = Stale, !.plaintext = Stale])]}

Collaborators ==
    {[newspaper |-> n, html2text |-> h, markdown2 |-> m] :
        n \in NewspaperOutcomes,
        h \in {"ok", "raise"}, m \in {"ok", "raise"}}

InitCascade ==
    /\ pc = "start"
    /\ hostname \in CascadeHosts
    /\ sitespecs \in Directories(hostname, CascadeFiles)
    /\ source \in CascadePages
    /\ extern \in Collaborators
    /\ spec = NoRules
    /\ elem = 0
    /\ testcase = <<>>
    /\ ret = None

CallScraperCascade ==
    /\ pc = "start"
    /\ pc' = "scraper_cascade"
    /\ ret' = scraper_cascade(sitespecs, hostname, source, extern)
    /\ UNCHANGED <<sitespecs, hostname, spec, source, elem, extern, testcase>>

NextCascade == CallScraperCascade

SpecCascade == InitCascade /\ [][NextCascade]_vars

Resolved == load_superdomains(sitespecs, hostname)

\* the generic extractor's result, or the raw page
Baseline ==
    IF extern.newspaper.returned.keys # {} THEN extern.newspaper.returned
    ELSE Dict({"html"}, [NoFields EXCEPT !.html = source])

\* the RuleEngine's result, when a rule set applies
Override ==
    IF Resolved = None THEN [raised |-> "", result |-> EmptyDict]
    ELSE LET r == clean_article(Resolved[1], source)
         IN  [raised |-> r.raised, result |-> r.result]

Overrides(k) == k \in Override.result.keys /\ Override.result.v[k] # <<>>

MergedFields == {"date", "title", "footnotes", "authors", "html"}

Returned == pc = "scraper_cascade" /\ ret.raised = ""

\* C3: the merged result takes, field by field, the override value when it
\* is non-empty and keeps the baseline value otherwise.
C3_Merge ==
    Returned =>
        \A k \in MergedFields :
            /\ k \in ret.result.keys <=> (Overrides(k) \/ k \in Baseline.keys)
            /\ ret.result.v[k] =
                  IF Overrides(k) THEN Override.result.v[k] ELSE Baseline.v[k]

\* baseline {title: "A", html: <p>x</p>}, override {title: "", html: ...}
C3_Witness ==
    /\ Returned
    /\ Baseline.v.title = <<"A">>
    /\ Baseline.v.html = Extracted
    /\ "title" \in Override.result.keys
    /\ Override.result.v.title = <<>>
    /\ Override.result.v.html \notin {<<>>, Extracted}
    /\ ret.result.v.title = <<"A">>
    /\ ret.result.v.html = Override.result.v.html

SpacedOut(md) == [i \in 1..Len(md) |-> IF md[i] = "\n" THEN " " ELSE md[i]]

\* C4: markdown, markdown_html and plaintext of every returned result are
\* rendered from the body html that survived the merge, whatever renditions
\* the baseline carried; that html is the raw page when the generic
\* extractor yields nothing and no rule set applies.
C4_Renditions ==
    Returned =>
        /\ {"markdown", "markdown_html", "plaintext"} \subseteq ret.result.keys
        /\ ret.result.v.html =
              IF Overrides("html") THEN Override.result.v.html ELSE Baseline.v.html
        /\ ret.result.v.markdown = html2text(ret.result.v.html)
        /\ ret.result.v.markdown_html = markdown2(ret.result.v.markdown)
        /\ ret.result.v.plaintext = SpacedOut(ret.result.v.markdown)
        /\ (extern.newspaper.returned.keys = {} /\ Resolved = None)
              => ret.result.v.html = source

\* the baseline carries stale renditions and the override replaces the html
C4_Witness ==
    /\ Returned
    /\ Baseline.v.markdown = Stale
    /\ Overrides("html")
    /\ ret.result.v.html # Baseline.v.html
    /\ ret.result.v.markdown # Stale
    /\ "\n" \in Range(ret.result.v.markdown)

RuleEngineFails == Override.raised # ""

CollaboratorFails ==
    \/ extern.newspaper.raised # ""
    \/ extern.html2text = "raise"
    \/ extern.markdown2 = "raise"

\* C9 as claimed: a failure of the generic extractor or of the render step
\* does not fail the call; only a RuleEngine error does.
C9_OnlyRuleEngineFatal ==
    pc = "scraper_cascade" => (ret.raised # "" <=> RuleEngineFails)

\* C9, amended: scraper_cascade catches nothing.  The call fails, without a
\* partial result, iff the generic extractor, the RuleEngine or the render
\* step raises; a generic extractor that returns nothing is no contribution
\* and the raw page is the baseline.
C9_AnyFailureFatal ==
    pc = "scraper_cascade" =>
        /\ ret.raised # "" <=> (RuleEngineFails \/ CollaboratorFails)
        /\ ret.raised # "" => ret.result = EmptyDict
        /\ (ret.raised = "" /\ extern.newspaper.returned.keys = {} /\ ~Overrides("html"))
              => ret.result.v.html = source

\* the render step raises, nothing else does, and the call fails
C9_Witness ==
    /\ pc = "scraper_cascade"
    /\ extern.newspaper.raised = ""
    /\ ~RuleEngineFails
    /\ extern.html2text = "raise"
    /\ ret.raised # ""
    /\ ret.result = EmptyDict
(***************************************************************************)
(* TestCase.  `ext` holds what clean_content(url) does on the call: it     *)
(* returns a result with the given plaintext or raises an exception with   *)
(* the given text.                                                         *)
(***************************************************************************)
TestCase(url) == [url |-> url, fragments |-> <<>>]

add_contains(self, fragment) ==
    [self EXCEPT !.fragments = Append(self.fragments, fragment)]

\* for s in self.fragments: if s not in text: missing.append(s)
missing_fragments(self, text) ==
    LET Absent(s) == ~Contains(text, s)
    IN  SelectSeq(self.fragments, Absent)

\* absent keys of the returned dict are "" and <<>>; stderr is what the
\* call wrote to sys.stderr
run(self, ext) ==
    IF ext.raised # ""
    THEN [propagated |-> FALSE,
          url |-> self.url,
          status |-> "EXCEPTION",
          message |-> "e.message",
          missing_fragments |-> <<>>,
          stderr |-> <<"Exception on ", self.url, " :\n", ext.raised>>]
    ELSE [propagated |-> FALSE,
          url |-> self.url,
          status |-> "OK",
          message |-> "",
          missing_fragments |-> missing_fragments(self, ext.plaintext),
          stderr |-> <<>>]

(***************************************************************************)
(* The test runner: a test case is built by add_contains, then run.        *)
(***************************************************************************)
Fragments == {<<"a">>, <<"b">>, <<"a", "b">>}

Plaintexts == {<<>>, <<"a">>, <<"a", " ", "b">>, <<"b", "a", "b">>}

ErrorTexts == {"boom", "HTTP Error 404: Not Found"}

CleanContentOutcomes ==
    {[raised |-> "", plaintext |-> t] : t \in Plaintexts}
        \cup {[raised |-> e, plaintext |-> <<>>] : e \in ErrorTexts}

InitRunner ==
    /\ pc = "start"
    /\ testcase = TestCase("http://a.b/")
    /\ extern \in CleanContentOutcomes
    /\ sitespecs = <<>>
    /\ hostname = <<>>
    /\ source = <<>>
    /\ spec = NoRules
    /\ elem = 0
    /\ ret = None

CallAddContains ==
    /\ pc = "start"
    /\ Len(testcase.fragments) < MaxFragments
    /\ \E fragment \in Fragments : testcase' = add_contains(testcase, fragment)
    /\ UNCHANGED <<pc, sitespecs, hostname, spec, source, elem, extern, ret>>

CallRun ==
    /\ pc = "start"
    /\ pc' = "run"
    /\ ret' = run(testcase, extern)
    /\ UNCHANGED <<sitespecs, hostname, spec, source, elem, extern, testcase>>

NextRunner == CallAddContains \/ CallRun

SpecRunner == InitRunner /\ [][NextRunner]_vars

\* C10: run never propagates; when clean_content raises it returns status
\* EXCEPTION with the text of the exception as its message, otherwise status
\* OK with the expected fragments absent from the plaintext, in order.
C10_RunReports ==
    pc = "run" =>
        /\ ~ret.propagated
        /\ IF extern.raised # ""
           THEN ret.status = "EXCEPTION" /\ ret.message = extern.raised
           ELSE /\ ret.status = "OK"
                /\ ret.missing_fragments =
                      SelectSeq(testcase.fragments,
                                LAMBDA s : ~Contains(extern.plaintext, s))

\* what does hold: the status, the fixed message, the exception text on
\* stderr only, and the missing fragments of a successful run
C10_RunReportsFixedMessage ==
    pc = "run" =>
        /\ ~ret.propagated
        /\ IF extern.raised # ""
           THEN /\ ret.status = "EXCEPTION"
                /\ ret.message = "e.message"
                /\ ret.stderr[Len(ret.stderr)] = extern.raised
           ELSE /\ ret.status = "OK"
                /\ ret.missing_fragments =
                      SelectSeq(testcase.fragments,
                                LAMBDA s : ~Contains(extern.plaintext, s))

C10_Witness ==
    /\ pc = "run"
    /\ extern.raised = "boom"
    /\ ret.status = "EXCEPTION"
    /\ ret.message # "boom"
====
